---- MODULE Spec2Model ----
(***************************************************************************)
(* A model of WorkerPool (src/src/index.ts): a pool of idle Web Workers.   *)
(* Workers are numbered in the order workerConstructor creates them; the   *)
(* JavaScript Set that holds the idle workers is a duplicate-free sequence *)
(* in insertion order, which is the order Set iteration follows.           *)
(***************************************************************************)
EXTENDS Integers, Sequences, FiniteSets, TLC

\* ------------------------------------------------------------ bounds ----
MaxOps == 6
\* the longest sequence of calls, made by a client that keeps the caller
\* contract of return
MaxRun == 9
\* the longest sequence of calls when workerConstructor and terminate may
\* throw
MaxFaultOps == 5
MaxInitial == 2
MaxCapacity == 2

Callers == {"c1", "c2"}

\* ------------------------------------------------- program constants ----
\* options?.maxWorkers ?? Infinity: the unbounded default
Infinity == -1
\* the value of an exhausted iterator's .value; no worker has this number
Undefined == 0

VARIABLES
    workersPool,     \* the Set of idle workers, in insertion order
    maxWorkers,      \* this.maxWorkers
    initialWorkers,  \* options.initialWorkers as given to the constructor
    created,         \* number of workerConstructor() invocations so far
    terminated,      \* the workers terminate() was invoked on, in call order
    held,            \* per caller: workers got and not yet passed to return
    invoked,         \* number of workerConstructor() invocations so far, the
                     \* ones that threw included
    construction,    \* how new WorkerPool(...) went: failAt is the invocation
                     \* of workerConstructor that threw (0: none did), threw
                     \* says whether the constructor threw to its caller
    hist             \* the calls made so far, each with its outcome and with
                     \* the pool (before), the number of workerConstructor()
                     \* invocations (made) and of terminate() invocations
                     \* (terms) at the moment of the call; fault names the
                     \* collaborator that threw during the call ("none",
                     \* "factory", "terminate"), calls counts the
                     \* workerConstructor() invocations of the call and threw
                     \* says whether the call threw to its caller

vars == <<workersPool, maxWorkers, initialWorkers, created, terminated, held,
          invoked, construction, hist>>

\* ------------------------------------------------------ Set<Worker> ----
Range(s) == {s[i] : i \in 1..Len(s)}

\* an array push in place of Set.add: a member can be stored twice
SetAddDup(s, w) == Append(s, w)

\* an add that moves a member already stored to the newest place
SetAddMoves(s, w) == Append(SelectSeq(s, LAMBDA x : x # w), w)

\* Set.prototype.add: adding a member a second time changes nothing
SetAdd(s, w) == IF w \in Range(s) THEN s ELSE Append(s, w)

\* Set.prototype.delete
SetDelete(s, w) == SelectSeq(s, LAMBDA x : x # w)

\* the newest member in place of the oldest
SetLast(s) == IF Len(s) = 0 THEN Undefined ELSE s[Len(s)]

\* this.workersPool.values().next().value
SetFirst(s) == IF Len(s) = 0 THEN Undefined ELSE s[1]

\* the test made on the size the pool would have after the add
AtCapacityOffByOne(size, max) == IF max = Infinity THEN FALSE ELSE size + 1 >= max

\* > in place of >=
AtCapacityStrict(size, max) == IF max = Infinity THEN FALSE ELSE size > max

\* this.workersPool.size >= this.maxWorkers
AtCapacity(size, max) == IF max = Infinity THEN FALSE ELSE size >= max

\* ------------------------------------------------- workerConstructor ----
\* the n-th invocation returns a worker no earlier invocation returned
NewWorker(n) == n + 1

\* ------------------------------------------------------- constructor ----
\* the loop of lines 53-55, from counter i with i workers made so far
RECURSIVE ConstructorLoop(_, _, _)
ConstructorLoop(i, n, pool) ==
    IF i < n THEN ConstructorLoop(i + 1, n, SetAdd(pool, NewWorker(i)))
             ELSE [pool |-> pool, created |-> i]

\* the loop started at 1: one worker short
ConstructorFromOne(n) == ConstructorLoop(1, n, <<>>)

Constructor(n) == ConstructorLoop(0, n, <<>>)

\* a constructor that catches the exception and goes on with the loop
ConstructorCatches(n, f) ==
    LET r == ConstructorLoop(0, n - 1, <<>>) IN
    [pool |-> r.pool, created |-> r.created, invoked |-> n, threw |-> FALSE]

\* the constructor when the f-th invocation of workerConstructor throws
\* (1 <= f <= n): the f - 1 rounds before it ran as usual, the exception
\* leaves the loop and the constructor, nothing catches it
ConstructorThrows(n, f) ==
    LET r == ConstructorLoop(0, f - 1, <<>>) IN
    [pool |-> r.pool, created |-> r.created, invoked |-> r.created + 1,
     threw |-> TRUE]

\* ----------------------------------------------------------- get() ----
\* get() without the delete: the worker stays in the pool
GetNoDelete(pool, n) ==
    LET worker == SetFirst(pool) IN
    IF worker # Undefined
    THEN [worker |-> worker, pool |-> pool, fresh |-> FALSE]
    ELSE [worker |-> NewWorker(n), pool |-> pool, fresh |-> TRUE]

\* get() that puts the worker it makes into the pool
GetStoresNew(pool, n) ==
    LET worker == SetFirst(pool) IN
    IF worker # Undefined
    THEN [worker |-> worker, pool |-> SetDelete(pool, worker), fresh |-> FALSE]
    ELSE [worker |-> NewWorker(n), pool |-> SetAdd(pool, NewWorker(n)),
          fresh |-> TRUE]

\* get() that never looks at the pool
GetAlwaysNew(pool, n) ==
    [worker |-> NewWorker(n), pool |-> pool, fresh |-> TRUE]

GetResult(pool, n) ==
    LET worker == SetFirst(pool) IN
    IF worker # Undefined
    THEN [worker |-> worker, pool |-> SetDelete(pool, worker), fresh |-> FALSE]
    ELSE [worker |-> NewWorker(n), pool |-> pool, fresh |-> TRUE]

\* get() that tries workerConstructor a second time when it throws
GetRetries(pool, n) ==
    LET worker == SetFirst(pool) IN
    IF worker # Undefined
    THEN [worker |-> worker, pool |-> SetDelete(pool, worker), calls |-> 0,
          threw |-> FALSE]
    ELSE [worker |-> NewWorker(n), pool |-> pool, calls |-> 2, threw |-> FALSE]

\* get() with a workerConstructor that throws: line 73 is reached only on
\* an empty pool, and the exception passes through get() to the caller
GetFactoryThrows(pool, n) ==
    LET worker == SetFirst(pool) IN
    IF worker # Undefined
    THEN [worker |-> worker, pool |-> SetDelete(pool, worker), calls |-> 0,
          threw |-> FALSE]
    ELSE [worker |-> Undefined, pool |-> pool, calls |-> 1, threw |-> TRUE]

\* -------------------------------------------------------- return() ----
\* return() without the early return after terminate()
ReturnNoEarlyExit(pool, max, w) ==
    [pool |-> SetAdd(pool, w), terminate |-> AtCapacity(Len(pool), max)]

\* return() that at capacity neither stores nor terminates the worker
ReturnDrops(pool, max, w) ==
    IF AtCapacity(Len(pool), max)
    THEN [pool |-> pool, terminate |-> FALSE]
    ELSE [pool |-> SetAdd(pool, w), terminate |-> FALSE]

\* return() that at capacity makes room: the oldest idle worker leaves the
\* pool and the argument is stored
ReturnEvictsOldest(pool, max, w) ==
    IF AtCapacity(Len(pool), max)
    THEN [pool |-> SetAdd(SubSeq(pool, 2, Len(pool)), w), terminate |-> TRUE]
    ELSE [pool |-> SetAdd(pool, w), terminate |-> FALSE]

ReturnResult(pool, max, w) ==
    IF AtCapacity(Len(pool), max)
    THEN [pool |-> pool, terminate |-> TRUE]
    ELSE [pool |-> SetAdd(pool, w), terminate |-> FALSE]

\* return() that adds the worker before it terminates it
ReturnAddsFirst(pool, max, w) ==
    IF AtCapacity(Len(pool), max)
    THEN [pool |-> SetAdd(pool, w), terminate |-> TRUE, threw |-> TRUE]
    ELSE [pool |-> SetAdd(pool, w), terminate |-> FALSE, threw |-> FALSE]

\* return() with a terminate that throws: line 88 is reached only at
\* capacity, before anything is added, and the exception passes through
\* return() to the caller
ReturnTerminateThrows(pool, max, w) ==
    IF AtCapacity(Len(pool), max)
    THEN [pool |-> pool, terminate |-> TRUE, threw |-> TRUE]
    ELSE [pool |-> SetAdd(pool, w), terminate |-> FALSE, threw |-> FALSE]

\* --------------------------------------------------------- behaviour ----
Init ==
    /\ initialWorkers \in 0..MaxInitial
    /\ maxWorkers \in (0..MaxCapacity) \cup {Infinity}
    /\ workersPool = Constructor(initialWorkers).pool
    /\ created = Constructor(initialWorkers).created
    /\ invoked = Constructor(initialWorkers).created
    /\ construction = [failAt |-> 0, threw |-> FALSE]
    /\ terminated = <<>>
    /\ held = [c \in Callers |-> {}]
    /\ hist = <<>>

\* construction during which one invocation of workerConstructor throws
InitFactoryThrows ==
    /\ initialWorkers \in 1..MaxInitial
    /\ maxWorkers \in (0..MaxCapacity) \cup {Infinity}
    /\ \E f \in 1..initialWorkers :
        LET r == ConstructorThrows(initialWorkers, f) IN
        /\ workersPool = r.pool
        /\ created = r.created
        /\ invoked = r.invoked
        /\ construction = [failAt |-> f, threw |-> r.threw]
    /\ terminated = <<>>
    /\ held = [c \in Callers |-> {}]
    /\ hist = <<>>

\* new WorkerPool(...) returned a pool: there is an object to call
Constructed == ~construction.threw

\* get() that hands out a worker only while the caller holds fewer than
\* maxWorkers
GetLimited(c) ==
    /\ Constructed
    /\ Len(hist) < MaxRun
    /\ (maxWorkers = Infinity \/ Cardinality(held[c]) < maxWorkers)
    /\ LET r == GetResult(workersPool, created) IN
        /\ workersPool' = r.pool
        /\ created' = IF r.fresh THEN created + 1 ELSE created
        /\ invoked' = IF r.fresh THEN invoked + 1 ELSE invoked
        /\ held' = [held EXCEPT ![c] = @ \cup {r.worker}]
        /\ hist' = Append(hist, [op |-> "get", caller |-> c, worker |-> r.worker,
                                 fresh |-> r.fresh, terminate |-> FALSE,
                                 owned |-> FALSE, before |-> workersPool,
                                 made |-> created, terms |-> Len(terminated),
                                 fault |-> "none",
                                 calls |-> IF r.fresh THEN 1 ELSE 0,
                                 threw |-> FALSE])
    /\ UNCHANGED <<maxWorkers, initialWorkers, terminated, construction>>

Get(c) ==
    /\ Constructed
    /\ Len(hist) < MaxRun
    /\ LET r == GetResult(workersPool, created) IN
        /\ workersPool' = r.pool
        /\ created' = IF r.fresh THEN created + 1 ELSE created
        /\ invoked' = IF r.fresh THEN invoked + 1 ELSE invoked
        /\ held' = [held EXCEPT ![c] = @ \cup {r.worker}]
        /\ hist' = Append(hist, [op |-> "get", caller |-> c, worker |-> r.worker,
                                 fresh |-> r.fresh, terminate |-> FALSE,
                                 owned |-> FALSE, before |-> workersPool,
                                 made |-> created, terms |-> Len(terminated),
                                 fault |-> "none",
                                 calls |-> IF r.fresh THEN 1 ELSE 0,
                                 threw |-> FALSE])
    /\ UNCHANGED <<maxWorkers, initialWorkers, terminated, construction>>

Return(c, w) ==
    /\ Constructed
    /\ Len(hist) < MaxRun
    /\ LET r == ReturnResult(workersPool, maxWorkers, w) IN
        /\ workersPool' = r.pool
        /\ terminated' = IF r.terminate THEN Append(terminated, w) ELSE terminated
        /\ held' = [held EXCEPT ![c] = @ \ {w}]
        /\ hist' = Append(hist, [op |-> "return", caller |-> c, worker |-> w,
                                 fresh |-> FALSE, terminate |-> r.terminate,
                                 owned |-> w \in held[c], before |-> workersPool,
                                 made |-> created, terms |-> Len(terminated),
                                 fault |-> "none", calls |-> 0,
                                 threw |-> FALSE])
    /\ UNCHANGED <<maxWorkers, initialWorkers, created, invoked, construction>>

\* get() at a moment when workerConstructor throws; on a pool that is not
\* empty workerConstructor is not invoked and the call is Get(c)
GetFaulty(c) ==
    /\ Constructed
    /\ Len(hist) < MaxRun
    /\ LET r == GetFactoryThrows(workersPool, created) IN
        /\ r.calls > 0
        /\ workersPool' = r.pool
        /\ created' = IF r.threw THEN created ELSE created + 1
        /\ invoked' = invoked + r.calls
        /\ held' = IF r.threw THEN held
                             ELSE [held EXCEPT ![c] = @ \cup {r.worker}]
        /\ hist' = Append(hist, [op |-> "get", caller |-> c, worker |-> r.worker,
                                 fresh |-> ~r.threw, terminate |-> FALSE,
                                 owned |-> FALSE, before |-> workersPool,
                                 made |-> created, terms |-> Len(terminated),
                                 fault |-> "factory", calls |-> r.calls,
                                 threw |-> r.threw])
    /\ UNCHANGED <<maxWorkers, initialWorkers, terminated, construction>>

\* return(w) at a moment when w.terminate() throws; under capacity
\* terminate is not invoked and the call is Return(c, w)
ReturnFaulty(c, w) ==
    /\ Constructed
    /\ Len(hist) < MaxRun
    /\ LET r == ReturnTerminateThrows(workersPool, maxWorkers, w) IN
        /\ r.terminate
        /\ workersPool' = r.pool
        /\ terminated' = Append(terminated, w)
        /\ held' = [held EXCEPT ![c] = @ \ {w}]
        /\ hist' = Append(hist, [op |-> "return", caller |-> c, worker |-> w,
                                 fresh |-> FALSE, terminate |-> r.terminate,
                                 owned |-> w \in held[c], before |-> workersPool,
                                 made |-> created, terms |-> Len(terminated),
                                 fault |-> "terminate", calls |-> 0,
                                 threw |-> r.threw])
    /\ UNCHANGED <<maxWorkers, initialWorkers, created, invoked, construction>>

\* one client using the pool in any way, the caller contract of return
\* included or not: any worker that exists may be passed to return
Client == "c1"

\* fewer than MaxOps calls were made
Short == Len(hist) < MaxOps

Next ==
    \/ Short /\ Get(Client)
    \/ Short /\ \E w \in 1..created : Return(Client, w)

Spec == Init /\ [][Next]_vars

\* several callers, each passing to return only a worker it holds
NextCallers ==
    \/ Short /\ \E c \in Callers : Get(c)
    \/ Short /\ \E c \in Callers : \E w \in held[c] : Return(c, w)

SpecCallers == Init /\ [][NextCallers]_vars

\* one client, any use of the pool, with a workerConstructor and a
\* terminate that may throw at any invocation
InitFaults == Init \/ InitFactoryThrows

\* fewer than MaxFaultOps calls were made
ShortFaults == Len(hist) < MaxFaultOps

NextFaults ==
    \/ ShortFaults /\ Get(Client)
    \/ ShortFaults /\ \E w \in 1..created : Return(Client, w)
    \/ ShortFaults /\ GetFaulty(Client)
    \/ ShortFaults /\ \E w \in 1..created : ReturnFaulty(Client, w)

\* one client that passes to return only workers it holds, over longer
\* sequences of calls
NextContract ==
    \/ Get(Client)
    \/ \E w \in held[Client] : Return(Client, w)

SpecContract == Init /\ [][NextContract]_vars

SpecFaults == InitFaults /\ [][NextFaults]_vars

\* ------------------------------------------------- reading the calls ----
Calls == 1..Len(hist)
IsGet(i) == i \in Calls /\ hist[i].op = "get"
IsReturn(i) == i \in Calls /\ hist[i].op = "return"
AllGets(a, b) == \A j \in a..b : IsGet(j)
AllReturns(a, b) == \A j \in a..b : IsReturn(j)

\* the pool as the i-th call left it
After(i) == IF i < Len(hist) THEN hist[i + 1].before ELSE workersPool

\* workerConstructor() and terminate() invocations up to the end of the i-th call
MadeAfter(i) == IF i < Len(hist) THEN hist[i + 1].made ELSE created
TermsAfter(i) == IF i < Len(hist) THEN hist[i + 1].terms ELSE Len(terminated)

DistinctWorkers(a, b) ==
    \A j, k \in a..b : j # k => hist[j].worker # hist[k].worker

\* the i-th call was a return that put its worker into the pool
Stored(i) ==
    /\ IsReturn(i)
    /\ ~hist[i].terminate
    /\ hist[i].worker \notin Range(hist[i].before)
    /\ hist[i].worker \in Range(After(i))

\* terminate() was invoked on w by a call before the i-th
TerminatedBefore(w, i) ==
    \E j \in 1..(i - 1) : IsReturn(j) /\ hist[j].terminate /\ hist[j].worker = w

\* every return so far was given a worker its caller held
ContractKept == \A i \in Calls : IsReturn(i) => hist[i].owned

WithinCapacity(size, max) == max = Infinity \/ size <= max

\* ------------------------------------------------------------- C1 ----
\* C1: in every reachable state, for every initialWorkers and maxWorkers
\* given to the constructor, the pool holds at most maxWorkers workers.
C1_IdleWithinCapacity == WithinCapacity(Len(workersPool), maxWorkers)

\* ------------------------------------------------------------- C2 ----
NoTerminatedIdle == Range(terminated) \cap Range(workersPool) = {}
NoTerminatedGot == \A i \in Calls : IsGet(i) => ~TerminatedBefore(hist[i].worker, i)

\* C2 as stated: after any sequence of get and return calls, a worker the
\* pool has terminated is not in the pool and is not returned by a later get.
C2_TerminatedNeverReused == NoTerminatedIdle /\ NoTerminatedGot

\* C2 as amended: the same, for the sequences of calls in which every
\* return is given a worker its caller holds (got and not returned since).
C2_TerminatedNeverReusedUnderContract ==
    ContractKept => (NoTerminatedIdle /\ NoTerminatedGot)

\* the contract kept, a worker terminated, and a get served from the pool
\* after the termination
C2_Witness ==
    /\ ContractKept
    /\ WithinCapacity(initialWorkers, maxWorkers)
    /\ \E i, j \in Calls :
        /\ i < j
        /\ IsReturn(i) /\ hist[i].terminate
        /\ IsGet(j) /\ ~hist[j].fresh

GetReturnGet(i) ==
    /\ IsGet(i) /\ IsReturn(i + 1) /\ IsGet(i + 2)
    /\ hist[i + 1].worker = hist[i].worker

\* C4 as stated: in any reachable state, after h = get() and return(h) the
\* next get() returns h.
C4_Reuse ==
    \A i \in Calls : GetReturnGet(i) => hist[i + 2].worker = hist[i].worker

\* C4 as amended: the same when the first get left the pool empty and
\* maxWorkers is at least 1.
C4_ReuseFromEmptyPool ==
    \A i \in Calls :
        (GetReturnGet(i) /\ After(i) = <<>> /\ maxWorkers # 0)
            => hist[i + 2].worker = hist[i].worker

C4_Witness ==
    \E i \in Calls :
        /\ GetReturnGet(i) /\ After(i) = <<>> /\ maxWorkers # 0
        /\ hist[i + 2].worker = hist[i].worker

\* ------------------------------------------------------------- C5 ----
\* when worker w, idle at the i-th call, was put into the pool: the number
\* of the return call that stored it, or for a worker the constructor
\* stored, its (negative) place in the constructor's loop
InsertedAt(w, i) ==
    LET S == {j \in 1..(i - 1) : Stored(j) /\ hist[j].worker = w} IN
    IF S = {} THEN w - initialWorkers - 1
              ELSE CHOOSE j \in S : \A k \in S : k <= j

\* a get on a non-empty pool returns the idle worker stored earliest
GetsOldestIdle ==
    \A i \in Calls :
        (IsGet(i) /\ hist[i].before # <<>>) =>
            /\ hist[i].worker \in Range(hist[i].before)
            /\ \A v \in Range(hist[i].before) :
                InsertedAt(hist[i].worker, i) <= InsertedAt(v, i)

StoredRun(i, n) == \A j \in i..(i + n - 1) : Stored(j)

\* C5 as stated: get returns the idle worker stored earliest, so workers
\* returned in the order h1..hn, all stored, are what the following n gets
\* return, in that order.
C5_Fifo ==
    /\ GetsOldestIdle
    /\ \A i \in Calls : \A n \in 1..MaxOps :
        (/\ i + 2 * n - 1 <= Len(hist)
         /\ StoredRun(i, n)
         /\ AllGets(i + n, i + 2 * n - 1))
            => \A k \in 0..(n - 1) : hist[i + n + k].worker = hist[i + k].worker

\* C5 as amended: get returns the idle worker stored earliest, so workers
\* returned in the order h1..hn, all stored, into a pool that held s
\* workers are what the (s+1)-th to (s+n)-th following gets return, in
\* that order.
C5_FifoBehindIdle ==
    /\ GetsOldestIdle
    /\ \A i \in Calls : \A n \in 1..MaxOps :
        LET s == Len(hist[i].before) IN
        (/\ i + 2 * n + s - 1 <= Len(hist)
         /\ StoredRun(i, n)
         /\ AllGets(i + n, i + 2 * n + s - 1))
            => \A k \in 0..(n - 1) :
                hist[i + n + s + k].worker = hist[i + k].worker

\* two workers stored one after the other and then got back in that order
C5_Witness ==
    \E i \in Calls :
        LET s == Len(hist[i].before) IN
        /\ i + 3 + s <= Len(hist)
        /\ StoredRun(i, 2)
        /\ AllGets(i + 2, i + 3 + s)
        /\ hist[i + 2 + s].worker = hist[i].worker
        /\ hist[i + 3 + s].worker = hist[i + 1].worker

\* ------------------------------------------------------------- C6 ----
\* maxWorkers + 1 returns in a row, of pairwise distinct workers, starting
\* with the i-th call
ReturnsOneTooMany(i) ==
    /\ maxWorkers # Infinity
    /\ i + maxWorkers <= Len(hist)
    /\ AllReturns(i, i + maxWorkers)
    /\ DistinctWorkers(i, i + maxWorkers)

ExactlyOneTerminated(i) ==
    /\ TermsAfter(i + maxWorkers) - hist[i].terms = 1
    /\ Len(After(i + maxWorkers)) = maxWorkers

\* C6 as stated: with maxWorkers = k, returning k+1 distinct workers with
\* no get in between makes exactly one terminate call and leaves exactly k
\* workers in the pool. It is stated for the pools built with
\* initialWorkers <= maxWorkers and the callers that return only workers
\* they hold, where neither the constructor nor a misuse can be the cause
\* of a failure.
C6_CapacityBound ==
    (WithinCapacity(initialWorkers, maxWorkers) /\ ContractKept) =>
        \A i \in Calls : ReturnsOneTooMany(i) => ExactlyOneTerminated(i)

\* C6 as amended: the same, when the pool is empty before the first of
\* the k+1 returns.
C6_CapacityBoundFromEmpty ==
    \A i \in Calls :
        (ReturnsOneTooMany(i) /\ hist[i].before = <<>>) => ExactlyOneTerminated(i)

C6_Witness ==
    \E i \in Calls :
        /\ maxWorkers >= 1
        /\ ReturnsOneTooMany(i) /\ hist[i].before = <<>>
        /\ hist[i + maxWorkers].terminate

\* ------------------------------------------------------------- C7 ----
\* C7: n gets in a row on a pool of s < n idle workers return n pairwise
\* distinct workers and invoke workerConstructor exactly n - s times, none
\* of them during the first s gets.
C7_Growth ==
    \A i \in Calls : \A n \in 1..MaxOps :
        LET s == Len(hist[i].before) IN
        (/\ i + n - 1 <= Len(hist)
         /\ AllGets(i, i + n - 1)
         /\ s < n)
            => /\ DistinctWorkers(i, i + n - 1)
               /\ MadeAfter(i + n - 1) - hist[i].made = n - s
               /\ MadeAfter(i + s - 1) = hist[i].made
               /\ \A j \in i..(i + s - 1) : hist[j].worker \in Range(hist[i].before)

\* three gets in a row on a pool of two
C7_Witness ==
    \E i \in Calls :
        /\ Len(hist[i].before) = 2
        /\ i + 2 <= Len(hist)
        /\ AllGets(i, i + 2)
        /\ hist[i + 2].fresh

\* ------------------------------------------------------------- C8 ----
\* C8: with maxWorkers = 0 the pool is empty in every reachable state,
\* every return terminates its argument and stores nothing, and every get
\* invokes workerConstructor and returns the new worker.
C8_ZeroCapacity ==
    maxWorkers = 0 =>
        /\ workersPool = <<>>
        /\ \A i \in Calls :
            /\ IsReturn(i) => (hist[i].terminate /\ After(i) = hist[i].before)
            /\ IsGet(i) => (hist[i].fresh /\ hist[i].worker = NewWorker(hist[i].made))

\* ------------------------------------------------------------- C9 ----
\* the workers the first m invocations of workerConstructor return
FirstMade(m) == {NewWorker(k) : k \in 0..(m - 1)}

\* C9: construction with initialWorkers = m invokes workerConstructor
\* exactly m times and leaves exactly those m workers in the pool; the
\* gets made next without any return, up to m of them, return pairwise
\* distinct workers made at construction and invoke workerConstructor never.
C9_InitialPopulation ==
    /\ hist = <<>> =>
        /\ created = initialWorkers
        /\ Len(workersPool) = initialWorkers
        /\ Range(workersPool) = FirstMade(initialWorkers)
    /\ \A n \in 1..initialWorkers :
        (n <= Len(hist) /\ AllGets(1, n)) =>
            /\ hist[1].made = initialWorkers
            /\ MadeAfter(n) = initialWorkers
            /\ DistinctWorkers(1, n)
            /\ \A j \in 1..n : hist[j].worker \in FirstMade(initialWorkers)

C9_Witness ==
    /\ initialWorkers = 2
    /\ Len(hist) >= 2
    /\ AllGets(1, 2)
    /\ {hist[1].worker, hist[2].worker} = FirstMade(2)

\* ------------------------------------------------------------ C10 ----
\* the i-th call is a return of a worker that is in the pool, made while
\* the pool is under capacity
ReturnOfIdle(i) ==
    /\ IsReturn(i)
    /\ hist[i].worker \in Range(hist[i].before)
    /\ ~AtCapacity(Len(hist[i].before), maxWorkers)

Occurrences(s, w) == Cardinality({p \in 1..Len(s) : s[p] = w})

\* C10: a return of a worker already in the pool, made under capacity,
\* changes nothing (same members in the same order, the worker stored once,
\* no terminate call); when it follows the return that stored the worker,
\* at most one of the gets made next returns that worker and the get after
\* that one returns a different worker, newly made.
C10_DoubleReturn ==
    /\ \A i \in Calls :
        ReturnOfIdle(i) =>
            /\ After(i) = hist[i].before
            /\ Occurrences(After(i), hist[i].worker) = 1
            /\ ~hist[i].terminate
            /\ TermsAfter(i) = hist[i].terms
    /\ \A i \in Calls :
        (/\ Stored(i)
         /\ ReturnOfIdle(i + 1)
         /\ hist[i + 1].worker = hist[i].worker)
            => \A m \in (i + 2)..Len(hist) :
                AllGets(i + 2, m) =>
                    /\ Cardinality({j \in (i + 2)..m :
                                      hist[j].worker = hist[i].worker}) <= 1
                    /\ \A j \in (i + 2)..(m - 1) :
                        hist[j].worker = hist[i].worker =>
                            /\ hist[j + 1].fresh
                            /\ hist[j + 1].worker # hist[i].worker

\* a worker returned twice in a row under capacity, then got once, then a
\* new worker got
C10_Witness ==
    \E i \in Calls :
        /\ Stored(i)
        /\ ReturnOfIdle(i + 1)
        /\ hist[i + 1].worker = hist[i].worker
        /\ IsGet(i + 2) /\ hist[i + 2].worker = hist[i].worker
        /\ IsGet(i + 3) /\ hist[i + 3].fresh

\* ------------------------------------------------------------ C11 ----
\* n returns in a row starting with the i-th call, of pairwise distinct
\* workers the caller holds, into an empty pool, n above maxWorkers
OverfillsEmptyPool(i, n) ==
    /\ maxWorkers # Infinity
    /\ n > maxWorkers
    /\ i + n - 1 <= Len(hist)
    /\ AllReturns(i, i + n - 1)
    /\ \A j \in i..(i + n - 1) : hist[j].owned
    /\ DistinctWorkers(i, i + n - 1)
    /\ hist[i].before = <<>>

\* the workers passed to the calls a..b, in call order
WorkersOf(a, b) == [j \in 1..(b - a + 1) |-> hist[a + j - 1].worker]

\* C11: with maxWorkers = k and an empty pool, returning pairwise distinct
\* held workers h1..hn, n > k, stores exactly h1..hk and invokes terminate
\* once on each of h(k+1)..hn and on no other worker; the gets made next
\* return h1..hk in that order and the (k+1)-th returns a worker newly
\* made, different from every hi.
C11_FirstKeptRestTerminated ==
    \A i \in Calls : \A n \in 1..MaxRun :
        OverfillsEmptyPool(i, n) =>
            LET k == maxWorkers
                e == i + n - 1
            IN
            /\ After(e) = WorkersOf(i, i + k - 1)
            /\ TermsAfter(e) - hist[i].terms = n - k
            /\ SubSeq(terminated, hist[i].terms + 1, hist[i].terms + n - k)
                 = WorkersOf(i + k, e)
            /\ \A m \in 1..k :
                (e + m <= Len(hist) /\ AllGets(e + 1, e + m)) =>
                    hist[e + m].worker = hist[i + m - 1].worker
            /\ (e + k + 1 <= Len(hist) /\ AllGets(e + 1, e + k + 1)) =>
                    /\ hist[e + k + 1].fresh
                    /\ hist[e + k + 1].worker = NewWorker(hist[e + k + 1].made)
                    /\ \A j \in i..e : hist[e + k + 1].worker # hist[j].worker

\* three workers returned into an empty pool of maxWorkers = 2, then
\* two gets that return the first two and a third that makes a worker
C11_Witness ==
    \E i \in Calls :
        /\ maxWorkers = 2
        /\ OverfillsEmptyPool(i, 3)
        /\ AllGets(i + 3, i + 5)
        /\ hist[i + 3].worker = hist[i].worker
        /\ hist[i + 4].worker = hist[i + 1].worker
        /\ hist[i + 5].fresh

\* ------------------------------------------------------------ C12 ----
\* the i-th call is a return, made under capacity, of a worker that is
\* not in the pool
ReturnUnderCapacity(i) ==
    /\ IsReturn(i)
    /\ (maxWorkers = Infinity \/ Len(hist[i].before) < maxWorkers)
    /\ hist[i].worker \notin Range(hist[i].before)

\* the number of gets among the calls a..b
GetsIn(a, b) == Cardinality({j \in a..b : IsGet(j)})

\* C12: a return made under capacity of a worker not in the pool adds the
\* worker (the pool grows by exactly one, the earlier members stay), invokes
\* no terminate, and the worker comes back: once as many gets have followed
\* as the pool then had members, one of them has returned it.
C12_ReturnStores ==
    \A i \in Calls :
        ReturnUnderCapacity(i) =>
            LET w == hist[i].worker
                s == Len(hist[i].before)
            IN
            /\ Len(After(i)) = s + 1
            /\ SubSeq(After(i), 1, s) = hist[i].before
            /\ w \in Range(After(i))
            /\ ~hist[i].terminate
            /\ TermsAfter(i) = hist[i].terms
            /\ \A m \in (i + 1)..Len(hist) :
                GetsIn(i + 1, m) >= s + 1 =>
                    \E j \in (i + 1)..m : IsGet(j) /\ hist[j].worker = w

\* a worker stored behind another one and got back later, a return of
\* another worker in between
C12_Witness ==
    \E i, r, j \in Calls :
        /\ i < r /\ r < j
        /\ ReturnUnderCapacity(i)
        /\ Len(hist[i].before) >= 1
        /\ IsReturn(r) /\ hist[r].worker # hist[i].worker
        /\ IsGet(j) /\ hist[j].worker = hist[i].worker

\* ------------------------------------------------------------ C13 ----
\* the i-th call is a return made while the pool holds maxWorkers workers
\* or more
ReturnAtCapacity(i) ==
    /\ IsReturn(i)
    /\ maxWorkers # Infinity
    /\ Len(hist[i].before) >= maxWorkers

\* C13: every return made while the pool holds maxWorkers workers or more
\* invokes terminate on its argument exactly once and leaves the pool
\* exactly as it was; the test is on the pool's size at the moment of the
\* call (a return made under capacity terminates nothing), and the same
\* worker returned again at capacity is terminated again.
C13_ReturnTerminates ==
    /\ \A i \in Calls :
        ReturnAtCapacity(i) =>
            /\ hist[i].terminate
            /\ TermsAfter(i) = hist[i].terms + 1
            /\ terminated[hist[i].terms + 1] = hist[i].worker
            /\ After(i) = hist[i].before
    /\ \A i \in Calls :
        (IsReturn(i) /\ ~ReturnAtCapacity(i)) => TermsAfter(i) = hist[i].terms
    /\ \A i \in Calls :
        (/\ ReturnAtCapacity(i)
         /\ ReturnAtCapacity(i + 1)
         /\ hist[i + 1].worker = hist[i].worker)
            => /\ TermsAfter(i + 1) = hist[i].terms + 2
               /\ terminated[hist[i].terms + 2] = hist[i].worker

\* a held worker returned twice in a row to a full pool that holds a worker
C13_Witness ==
    \E i \in Calls :
        /\ maxWorkers >= 1
        /\ ReturnAtCapacity(i) /\ hist[i].owned
        /\ ReturnAtCapacity(i + 1)
        /\ hist[i + 1].worker = hist[i].worker
        /\ Occurrences(terminated, hist[i].worker) >= 2

\* ------------------------------------------------------------ C14 ----
\* C14: a get on an empty pool invokes workerConstructor exactly once,
\* returns the worker that invocation made, and leaves the pool empty.
C14_GetOnEmptyPool ==
    \A i \in Calls :
        (IsGet(i) /\ hist[i].before = <<>>) =>
            /\ hist[i].calls = 1
            /\ MadeAfter(i) = hist[i].made + 1
            /\ hist[i].worker = NewWorker(hist[i].made)
            /\ After(i) = <<>>

\* a get on an empty pool, made when workers exist already, whose worker
\* the caller holds
C14_Witness ==
    \E i \in Calls :
        /\ IsGet(i) /\ hist[i].before = <<>>
        /\ hist[i].made >= 1
        /\ hist[i].worker \in held[hist[i].caller]

\* ------------------------------------------------------------ C15 ----
\* C15: a get on a pool that is not empty returns a worker that was in the
\* pool, removes that worker and no other (the pool shrinks by exactly
\* one), and invokes neither workerConstructor nor terminate.
C15_GetOnIdlePool ==
    \A i \in Calls :
        (IsGet(i) /\ hist[i].before # <<>>) =>
            /\ hist[i].worker \in Range(hist[i].before)
            /\ Len(After(i)) = Len(hist[i].before) - 1
            /\ Range(After(i)) = Range(hist[i].before) \ {hist[i].worker}
            /\ hist[i].calls = 0
            /\ MadeAfter(i) = hist[i].made
            /\ TermsAfter(i) = hist[i].terms

\* a get on a pool of two, after a terminate call
C15_Witness ==
    \E i \in Calls :
        /\ IsGet(i)
        /\ Len(hist[i].before) = 2
        /\ hist[i].terms >= 1
        /\ Len(After(i)) = 1

\* ------------------------------------------------------------ C16 ----
\* the workers handed out and not returned
CheckedOut == UNION {held[c] : c \in Callers}

\* C16: get is never blocked and maxWorkers does not limit it: in every
\* reachable state, whatever maxWorkers is and however many workers are
\* handed out, a get call can be made, and every get call made has
\* returned a worker.
C16_GetNeverBlocked ==
    /\ Len(hist) < MaxRun => \A c \in Callers : ENABLED Get(c)
    /\ \A i \in Calls :
        IsGet(i) => /\ hist[i].worker # Undefined
                    /\ hist[i].worker \in 1..MadeAfter(i)

\* three workers more than maxWorkers handed out at once, the last get
\* made while the others were out
C16_Witness ==
    /\ maxWorkers # Infinity
    /\ Cardinality(CheckedOut) >= maxWorkers + 3
    /\ IsGet(Len(hist))

\* ------------------------------------------------------------ C17 ----
\* the workers made and not terminated by the pool: idle or handed out
Live == (1..created) \ Range(terminated)

Max(a, b) == IF a >= b THEN a ELSE b

FailedGets == {i \in Calls : IsGet(i) /\ hist[i].fault = "factory"}

\* C18: when workerConstructor throws during a get on an empty pool, the
\* get throws to its caller, workerConstructor was invoked once by that
\* call and the pool is as before the call; when it throws during
\* construction, the constructor throws to its caller and no further
\* invocation of workerConstructor is made.
C18_FactoryFailure ==
    /\ \A i \in FailedGets :
        /\ hist[i].threw
        /\ hist[i].worker = Undefined
        /\ hist[i].calls = 1
        /\ After(i) = hist[i].before
        /\ MadeAfter(i) = hist[i].made
    /\ construction.failAt > 0 =>
        /\ construction.threw
        /\ invoked = construction.failAt
        /\ created = construction.failAt - 1
        /\ hist = <<>>
    /\ invoked = created + Cardinality(FailedGets)
                   + (IF construction.failAt > 0 THEN 1 ELSE 0)

\* a get that threw on an empty pool, after a call that went well, and a
\* get after it that made a worker
C18_Witness ==
    \E i \in FailedGets :
        /\ i >= 2
        /\ hist[i].before = <<>>
        /\ hist[i].threw
        /\ IsGet(i + 1) /\ hist[i + 1].fresh

\* ------------------------------------------------------------ C19 ----
\* the return calls so far during which terminate threw
FailedReturns == {i \in Calls : IsReturn(i) /\ hist[i].fault = "terminate"}

\* a worker is not in the pool when return invokes terminate on it
TerminatedOutsidePool ==
    \A i \in Calls :
        (IsReturn(i) /\ hist[i].terminate) =>
            hist[i].worker \notin Range(hist[i].before)

\* when terminate throws, return throws to its caller and the pool is as
\* before the call, its argument in it at most once
FailedReturnKeepsPool ==
    \A i \in FailedReturns :
        /\ hist[i].threw
        /\ After(i) = hist[i].before
        /\ Occurrences(After(i), hist[i].worker) <= 1
        /\ TermsAfter(i) = hist[i].terms + 1

\* every return so far was given a worker that an earlier get returned
OnlyGotWorkersReturned ==
    \A i \in Calls :
        IsReturn(i) => \E j \in 1..(i - 1) :
                           IsGet(j) /\ hist[j].worker = hist[i].worker

\* C19 as stated: whenever return invokes terminate on a worker, the worker
\* is not in the pool at that moment, and when terminate throws the return
\* throws to its caller with the pool exactly as before the call. It is
\* stated for the pools built with initialWorkers <= maxWorkers and the
\* returns of workers that get handed out, where neither the constructor
\* nor a worker the pool never handed out can be the cause of a failure.
C19_TerminateFailure ==
    (WithinCapacity(initialWorkers, maxWorkers) /\ OnlyGotWorkersReturned) =>
        (TerminatedOutsidePool /\ FailedReturnKeepsPool)

\* C19 as amended: when every return is given a worker its caller holds,
\* a worker is not in the pool at the moment return invokes terminate on
\* it; and in any case, when terminate throws the return throws to its
\* caller with the pool exactly as before the call.
C19_TerminateFailureUnderContract ==
    /\ ContractKept => TerminatedOutsidePool
    /\ FailedReturnKeepsPool

\* terminate threw on a held worker returned to a full pool that holds a
\* worker, every return so far being of a held worker
C19_Witness ==
    /\ ContractKept
    /\ \E i \in FailedReturns :
        /\ hist[i].owned
        /\ hist[i].threw
        /\ Len(hist[i].before) >= 1
        /\ workersPool = hist[i].before

\* ------------------------------------------------------------ C20 ----
\* the pool after the first t calls
PoolAt(t) == IF t < Len(hist) THEN hist[t + 1].before ELSE workersPool

\* C20: in every reachable state the pool holds at most
\* max(initialWorkers, maxWorkers) workers; a return never grows the pool
\* beyond maxWorkers; and once the pool holds at most maxWorkers workers
\* it does so ever after.
C20_RetainedBound ==
    /\ \/ WithinCapacity(Len(workersPool), maxWorkers)
       \/ Len(workersPool) <= initialWorkers
    /\ \A i \in Calls :
        IsReturn(i) =>
            \/ Len(After(i)) <= Len(hist[i].before)
            \/ WithinCapacity(Len(After(i)), maxWorkers)
    /\ \A t, u \in 0..Len(hist) :
        (t <= u /\ WithinCapacity(Len(PoolAt(t)), maxWorkers))
            => WithinCapacity(Len(PoolAt(u)), maxWorkers)

\* a pool built with more workers than maxWorkers that got down to
\* maxWorkers and then was returned a worker at capacity
C20_Witness ==
    /\ maxWorkers >= 1
    /\ initialWorkers > maxWorkers
    /\ ~WithinCapacity(Len(PoolAt(0)), maxWorkers)
    /\ \E i \in Calls :
        /\ ReturnAtCapacity(i)
        /\ Len(hist[i].before) = maxWorkers
        /\ hist[i].owned

\* ------------------------------------------------------------ C21 ----
\* the workers in the pool, and the workers terminate() was invoked on
Idle == Range(workersPool)
TerminatedByPool == Range(terminated)

\* no worker is in two of the three places, held by two callers, stored
\* twice or terminated twice
NoWorkerDuplicated ==
    /\ Idle \cap CheckedOut = {}
    /\ Idle \cap TerminatedByPool = {}
    /\ CheckedOut \cap TerminatedByPool = {}
    /\ \A c, d \in Callers : c # d => held[c] \cap held[d] = {}
    /\ Cardinality(Idle) = Len(workersPool)
    /\ Cardinality(TerminatedByPool) = Len(terminated)

\* C21: when every return is given a worker its caller holds (got and not
\* returned since), every worker workerConstructor made is in exactly one
\* of three places, in the pool, held by a caller or terminated by the
\* pool, and the number of workerConstructor invocations is the sum of the
\* sizes of the three.
C21_Conservation ==
    ContractKept =>
        /\ Idle \cup CheckedOut \cup TerminatedByPool = 1..created
        /\ NoWorkerDuplicated
        /\ invoked = created
        /\ invoked = Len(workersPool) + Cardinality(CheckedOut)
                        + Len(terminated)

\* the three places all occupied, a worker made by get among the idle
\* ones, both callers having returned a worker
C21_Witness ==
    /\ ContractKept
    /\ Idle # {} /\ CheckedOut # {} /\ TerminatedByPool # {}
    /\ \E w \in Idle : w > initialWorkers
    /\ \A c \in Callers : \E i \in Calls : IsReturn(i) /\ hist[i].caller = c

\* ------------------------------------------------------------ C22 ----
\* the q-th get made after the first t calls; 0 when fewer were made
NthGetAfter(t, q) ==
    LET S == {m \in (t + 1)..Len(hist) : IsGet(m) /\ GetsIn(t + 1, m) = q} IN
    IF S = {} THEN 0 ELSE CHOOSE m \in S : TRUE

\* C22: a worker that is in the pool with j workers ahead of it in
\* insertion order is returned by the (j+1)-th get made from then on and
\* by none of the j gets before that one, whatever return calls are made
\* in between: of other workers, of that worker again, of workers that are
\* in the pool.
C22_IdleNotOvertaken ==
    \A t \in 0..Len(hist) : \A p \in 1..Len(PoolAt(t)) :
        LET h == PoolAt(t)[p] IN
        /\ NthGetAfter(t, p) # 0 => hist[NthGetAfter(t, p)].worker = h
        /\ \A q \in 1..(p - 1) :
            NthGetAfter(t, q) # 0 => hist[NthGetAfter(t, q)].worker # h

\* a worker with one worker ahead of it, returned again while idle, and
\* got by the second get after a return of the worker got first
C22_Witness ==
    \E t \in 0..Len(hist) :
        /\ Len(PoolAt(t)) >= 2
        /\ LET h == PoolAt(t)[2]
               g1 == NthGetAfter(t, 1)
               g2 == NthGetAfter(t, 2)
           IN
           /\ g2 # 0
           /\ hist[g2].worker = h
           /\ \E r \in (t + 1)..(g2 - 1) : IsReturn(r) /\ hist[r].worker = h
           /\ \E r \in (g1 + 1)..(g2 - 1) :
               IsReturn(r) /\ hist[r].worker = hist[g1].worker

\* ------------------------------------------------------------ C23 ----
\* every member of the pool before a return is a member after it, at the
\* same place, and the return makes no worker
ReturnRemovesNothing ==
    \A i \in Calls :
        IsReturn(i) =>
            /\ Len(After(i)) >= Len(hist[i].before)
            /\ SubSeq(After(i), 1, Len(hist[i].before)) = hist[i].before
            /\ hist[i].calls = 0
            /\ MadeAfter(i) = hist[i].made

GetTerminatesNothing ==
    \A i \in Calls : IsGet(i) => (~hist[i].terminate /\ TermsAfter(i) = hist[i].terms)

\* a worker that is in the pool before a call and not after it is the
\* worker a get returned
LeavesOnlyByGet ==
    \A i \in Calls : \A w \in Range(hist[i].before) \ Range(After(i)) :
        IsGet(i) /\ ~hist[i].threw /\ hist[i].worker = w

\* every terminate() invocation was made by a return call, on its
\* argument, while the pool held maxWorkers workers or more
TerminatesOnlyArgumentAtCapacity ==
    \A q \in 1..Len(terminated) :
        \E i \in Calls :
            /\ ReturnAtCapacity(i)
            /\ hist[i].terms = q - 1
            /\ TermsAfter(i) = q
            /\ hist[i].worker = terminated[q]

\* C23: return removes no worker from the pool and never invokes
\* workerConstructor, get never invokes terminate, a worker leaves the
\* pool only as the worker a get returns, and the pool invokes terminate
\* only on the argument of a return made while the pool holds maxWorkers
\* workers or more.
C23_NoEviction ==
    /\ ReturnRemovesNothing
    /\ GetTerminatesNothing
    /\ LeavesOnlyByGet
    /\ TerminatesOnlyArgumentAtCapacity

\* a return at capacity that terminated its argument and left a pool that
\* is not empty as it was, and a later get that took a worker out of it
C23_Witness ==
    \E i, j \in Calls :
        /\ i < j
        /\ ReturnAtCapacity(i) /\ hist[i].terminate
        /\ hist[i].before # <<>>
        /\ After(i) = hist[i].before
        /\ hist[i].worker \notin Range(hist[i].before)
        /\ IsGet(j) /\ hist[j].worker \in Range(hist[i].before)
        /\ hist[j].worker \notin Range(After(j))

====
